---- MODULE Spec2Model ----
(***************************************************************************)
(* A model of piper-tts-rust: the PhonemeGen library pipeline              *)
(* (src/src/phoneme_gen.rs), the Model helpers (src/src/model_handler.rs)  *)
(* and the straight-line pipeline of src/src/main.rs.                      *)
(*                                                                         *)
(* A Rust String is modelled as a sequence of one-character strings, so    *)
(* that "hi!" is <<"h", "i", "!">>.  Non-ASCII IPA characters are written  *)
(* with ASCII stand-ins (the module language has no Unicode strings).      *)
(***************************************************************************)
EXTENDS Integers, Sequences, FiniteSets, TLC

\* ------------------------------------------------------------------ bounds
\* Longest input text, in characters.
MaxTextLen == 3
\* The decode cap max_len handed to greedy_decode.  word_to_tokens passes 50
\* (phoneme_gen.rs:145); the model scales that cap down.
MaxLen == 3
\* Longest word handed to the symbol mapper, in tokens.
MaxTokens == 2
\* Longest waveform handed to the WAV writer, in samples.
MaxSamples == 2

\* The characters main's example_text is drawn from, and those of the text
\* handed to process_text.
TextChars == {"a", "!", ",", " "}
LibTextChars == {"a", "!", " "}

\* ----------------------------------------------------------- Rust strings
\* char::is_whitespace, restricted to the characters of the model.
is_whitespace(c) == c = " "

\* char::is_ascii_punctuation (the grave accent, which no string of the model
\* holds, is left out: the module language cannot quote it)
is_ascii_punctuation(c) ==
    c \in {"!", "\"", "#", "$", "%", "&", "'", "(", ")", "*", "+", ",", "-",
           ".", "/", ":", ";", "<", "=", ">", "?", "@", "[", "\\", "]", "^",
           "_", "{", "|", "}", "~"}

RECURSIVE trim_start(_)
trim_start(s) ==
    IF s # <<>> /\ is_whitespace(Head(s)) THEN trim_start(Tail(s)) ELSE s

RECURSIVE trim_end(_)
trim_end(s) ==
    IF s # <<>> /\ is_whitespace(s[Len(s)])
    THEN trim_end(SubSeq(s, 1, Len(s) - 1)) ELSE s

\* str::trim
trim(s) == trim_end(trim_start(s))

\* str::trim_end_matches(char)
RECURSIVE trim_end_matches(_, _)
trim_end_matches(s, c) ==
    IF s # <<>> /\ s[Len(s)] = c
    THEN trim_end_matches(SubSeq(s, 1, Len(s) - 1), c) ELSE s

\* str::ends_with(&str) for a one-character pattern
ends_with(s, c) == s # <<>> /\ s[Len(s)] = c

\* str::split_whitespace: the maximal runs of non-whitespace characters
RECURSIVE sw_loop(_, _, _)
sw_loop(s, cur, acc) ==
    IF s = <<>> THEN (IF cur = <<>> THEN acc ELSE Append(acc, cur))
    ELSE IF is_whitespace(Head(s))
         THEN sw_loop(Tail(s), <<>>, IF cur = <<>> THEN acc ELSE Append(acc, cur))
         ELSE sw_loop(Tail(s), Append(cur, Head(s)), acc)

split_whitespace(s) == sw_loop(s, <<>>, <<>>)

\* [String]::join(sep)
RECURSIVE join(_, _)
join(parts, sep) ==
    IF parts = <<>> THEN <<>>
    ELSE IF Len(parts) = 1 THEN parts[1]
    ELSE parts[1] \o sep \o join(Tail(parts), sep)

\* s.chars().map(|c| c.to_string()).collect::<Vec<String>>()
chars_to_strings(s) == [i \in 1..Len(s) |-> <<s[i]>>]

\* usize Display, as format!("{}", n) prints it
DigitChar(d) == <<"0", "1", "2", "3", "4", "5", "6", "7", "8", "9">>[d + 1]

RECURSIVE to_decimal(_)
to_decimal(n) ==
    IF n < 10 THEN <<DigitChar(n)>>
    ELSE Append(to_decimal(n \div 10), DigitChar(n % 10))

\* --------------------------------------------------- PhonemeGen's tables
\* greedy_decode's control ids
bos_id == 2
eos_id == 2
pad_id == 1
s_id == 0

\* vocab.1, the id -> token map load() builds from the vocabulary file.  The
\* file is not part of the repository; the model's table names the control
\* tokens and one phoneme, and leaves the ids from 4 up without an entry.
reverse_vocab_map ==
    (0 :> <<"<", "s", ">">>) @@ (1 :> <<"<", "p", "a", "d", ">">>) @@
    (2 :> <<"<", "/", "s", ">">>) @@ (3 :> <<"K">>)

\* arpabet_mapping, the token -> IPA map load() builds from the mapping file.
arpabet_mapping == (<<"K">> :> <<"k">>)

\* Width of the decoder's logits rows (shape[2] of the "logits" tensor): the
\* ids of the vocabulary table and one id more, which has no entry.
VocabSize == Cardinality(DOMAIN reverse_vocab_map) + 1

\* ------------------------------------------------------------- variables
VARIABLES
    entry,                  \* which program runs: "process_text" or "main"
    text,                   \* the input text
    loaded,                 \* PhonemeGen: encoder, decoder, tokenizer are Some
    pc,                     \* position inside process_text
    sentences,              \* process_text: text_to_sentences' result
    si,                     \* process_senteces: index of the next sentence
    words,                  \* process_senteces: words of the current sentence
    wi,                     \* process_senteces: index of the next word
    punctuation,            \* process_senteces: current word's punctuation
    word_without_punctuation,
    processed_sentence,
    rendering,              \* what the word loop pushed after bos (283-296)
    processed_sentences,
    decoder_ids,            \* greedy_decode
    decoded_ids,            \* greedy_decode
    decoded_tokens,         \* greedy_decode
    step,                   \* greedy_decode: the loop variable _step
    session_runs,           \* decoder runs of the current greedy_decode call
    encoder_output,         \* greedy_decode: the encoder's hidden states
    encoder_attention_mask, \* greedy_decode: the encoder's attention mask
    inputs,                 \* greedy_decode: the inputs of the latest run
    selected,               \* the next_id of every completed step, in order
    decoder_ran,            \* the decoder has run since the program started
    net_failed,             \* an encoder or decoder run returned Err
    token_phonemes,         \* process_word's Ok value for the last word
    error,                  \* message of the Err that ended the run
    ps_result,              \* process_senteces: "None", "Ok", "Err", "Panic"
    ps_value,               \* process_senteces' Ok value
    pt_result,              \* process_text: "None", "Ok", "Panic"
    text_out,               \* process_text's Ok value
    m_words,                \* main: words
    arpabet_words,          \* main
    ipa_words,              \* main
    ipa_string,             \* main
    formated_ipa_string,    \* main
    prev_was_space,         \* main
    fi,                     \* main: index of the formatter loop's next char
    config_phoneme_id_map,  \* config.phoneme_id_map, the vocabulary
    phonemes_ids,           \* main: phonemes_ids; Model: phoneme_ids
    mapper_word,            \* arpabet_to_ipa: its argument word, the tokens
    ipa_phonemes,           \* arpabet_to_ipa: its Ok value
    ipa_string_arg,         \* process_ipa_string: its argument ipa_string
    phonemes_len,           \* prepare_input: phonemes_len, -1 before the call
    model_runs,             \* how often self.model.run has been called
    inference_result,       \* process_ipa_string: "None", "Ok", "Err", "Panic"
    overflow_checks,        \* the build panics on integer overflow (debug)
    waveform,               \* write_wav_file: the first f32 samples
    silence,                \* write_wav_file: how many samples 0.0 follow
                            \* those of waveform, a usize as its 8 bytes
    sample_rate,            \* write_wav_file: the u64 rate, as its 8 bytes
    samples,                \* write_wav_file: the Vec<i16> of line 158,
                            \* without the zeros of the silence
    file,                   \* the first bytes of the output file
    file_zeros              \* how many bytes 0 follow those of file, as
                            \* its 8 bytes

vars == <<entry, text, loaded, pc, sentences, si, words, wi, punctuation,
          word_without_punctuation, processed_sentence, rendering,
          processed_sentences,
          decoder_ids, decoded_ids, decoded_tokens, step, session_runs,
          encoder_output, encoder_attention_mask, inputs, selected,
          decoder_ran, net_failed, token_phonemes, error, ps_result,
          ps_value, pt_result, text_out, m_words, arpabet_words, ipa_words,
          ipa_string, formated_ipa_string, prev_was_space, fi,
          config_phoneme_id_map, phonemes_ids, mapper_word, ipa_phonemes,
          ipa_string_arg, phonemes_len, model_runs, inference_result,
          overflow_checks, waveform, silence, sample_rate, samples, file,
          file_zeros>>

decodeVars == <<decoder_ids, decoded_ids, decoded_tokens, step, session_runs,
                encoder_output, encoder_attention_mask, inputs, selected>>
wordVars == <<punctuation, word_without_punctuation>>
resultVars == <<error, ps_result, ps_value, pt_result, text_out>>
libVars == <<loaded, words, wi, processed_sentence, rendering,
             processed_sentences, net_failed, token_phonemes, decoder_ran>>
mainVars == <<m_words, arpabet_words, ipa_words, ipa_string,
              formated_ipa_string, prev_was_space, fi>>
idVars == <<config_phoneme_id_map, phonemes_ids>>
mapperVars == <<mapper_word, ipa_phonemes>>
\* what the text pipeline (process_text, main up to the phoneme ids) leaves
\* alone
inferenceVars == <<ipa_string_arg, phonemes_len, model_runs, inference_result>>
wavVars == <<overflow_checks, waveform, silence, sample_rate, samples, file,
             file_zeros>>
stageVars == <<mapperVars, inferenceVars, wavVars>>

\* ------------------------------------------------------------ the inputs
RECURSIVE StringsUpTo(_, _)
StringsUpTo(n, alphabet) ==
    IF n = 0 THEN {<<>>}
    ELSE LET shorter == StringsUpTo(n - 1, alphabet) IN
         shorter \cup {Append(s, c) : s \in {t \in shorter : Len(t) = n - 1},
                                      c \in alphabet}

Texts == StringsUpTo(MaxTextLen, TextChars)
LibTexts == StringsUpTo(MaxTextLen, LibTextChars)

\* ------------------------------------------------------ text_to_sentences
sentence_endings == {".", "!", "?"}

\* lines 264-266: the unfinished sentence is pushed when it is not empty
tts_flush_always(current_sentence, acc) == Append(acc, trim(current_sentence))

tts_flush(current_sentence, acc) ==
    IF current_sentence # <<>> THEN Append(acc, trim(current_sentence)) ELSE acc

RECURSIVE tts_loop(_, _, _)
tts_loop(ws, current_sentence, acc) ==
    IF ws = <<>> THEN tts_flush(current_sentence, acc)
    ELSE LET word == Head(ws) IN
         IF \E ending \in sentence_endings : ends_with(word, ending)
         THEN tts_loop(Tail(ws), <<>>,
                       Append(acc, trim(current_sentence \o word)))
         ELSE tts_loop(Tail(ws), current_sentence \o word \o <<" ">>, acc)

text_to_sentences(t) == tts_loop(split_whitespace(t), <<>>, <<>>)

\* ----------------------------------------------------------- greedy_decode
\* f32::NEG_INFINITY, argmax's first best_val: below every logit of the model
NegInf == -1

\* lines 100-110: the index of the first maximum, 0 when nothing exceeds
\* NEG_INFINITY
RECURSIVE argmax_loop(_, _, _, _)
argmax_loop(slice, i, best, best_val) ==
    IF i > Len(slice) THEN best
    ELSE IF slice[i] > best_val
         THEN argmax_loop(slice, i + 1, i - 1, slice[i])
         ELSE argmax_loop(slice, i + 1, best, best_val)

argmax(slice) == argmax_loop(slice, 1, 0, NegInf)

\* The rows a decoder run may return for the last position: one row per id
\* that puts the maximum on that id alone, a row whose maximum is shared by
\* the two highest ids, and a row of NEG_INFINITY.
OneHot(id) == [i \in 1..VocabSize |-> IF i = id + 1 THEN 1 ELSE 0]
TieRow == [i \in 1..VocabSize |-> IF i >= VocabSize - 1 THEN 1 ELSE 0]
NegInfRow == [i \in 1..VocabSize |-> NegInf]
LogitRows == {OneHot(id) : id \in 0..(VocabSize - 1)} \cup {TieRow, NegInfRow}

\* The flat "logits" tensor of shape [1, seq_len, vocab_size]: the rows of
\* the earlier positions (which name the pad id) and then the last row.
RECURSIVE flat_logits_of(_, _)
flat_logits_of(seq_len, row) ==
    IF seq_len <= 1 THEN row ELSE OneHot(pad_id) \o flat_logits_of(seq_len - 1, row)

\* lines 185-191: the slice of the last position, and its argmax
next_id_of(seq_len, flat_logits) ==
    LET vocab_size == VocabSize
        cur_decoder_seq_len == seq_len
        start == (cur_decoder_seq_len - 1) * vocab_size
        end == start + vocab_size
        last_logits_slice == SubSeq(flat_logits, start + 1, end)
    IN  argmax(last_logits_slice)

\* lines 195-197: the token of an id, "<id>" for an id the table lacks
tok_str(next_id_usize) ==
    IF next_id_usize \in DOMAIN reverse_vocab_map
    THEN reverse_vocab_map[next_id_usize]
    ELSE <<"<">> \o to_decimal(next_id_usize) \o <<">">>

\* line 165: for _step in 0..max_len
loop_continues_past_cap(stepNo, max_len) == stepNo <= max_len

loop_continues(stepNo, max_len) == stepNo < max_len

\* line 199: if next_id == eos_id { break; }
breaks_never(next_id) == FALSE

breaks_on(next_id) == next_id = eos_id

\* line 203: the ids that are pushed to decoded_ids / decoded_tokens
is_content_keeps_s(next_id) ==
    next_id # bos_id /\ next_id # pad_id /\ next_id # eos_id

is_content(next_id) ==
    next_id # bos_id /\ next_id # pad_id /\ next_id # eos_id /\ next_id # s_id

\* The `?` operator on a Result: an Err leaves the function at once.
try_swallowing(kind, ok_pc) == IF kind = "panic" THEN "Failed" ELSE ok_pc

try_pc(kind, ok_pc) == IF kind = "ok" THEN ok_pc ELSE "Failed"

\* ------------------------------------------------------------ process_word
\* The trailing stress digits of ARPAbet tokens.
stress_digits == {"0", "1", "2"}

\* The mapper of the specification's section 4.4: the trailing stress digit
\* is stripped, the base looked up, and the mark of digit 1 or 2 put first.
strip_stress(token) ==
    IF token # <<>> /\ token[Len(token)] \in stress_digits
    THEN SubSeq(token, 1, Len(token) - 1) ELSE token

stress_mark(token) ==
    IF token = <<>> THEN <<>>
    ELSE CASE token[Len(token)] = "1" -> <<"'">>
           [] token[Len(token)] = "2" -> <<"%">>
           [] OTHER -> <<>>

lookup_stripping(token, mapping) ==
    IF strip_stress(token) \in DOMAIN mapping
    THEN stress_mark(token) \o mapping[strip_stress(token)]
    ELSE token

arpabet_to_ipa_stripping(word) ==
    [i \in 1..Len(word) |-> lookup_stripping(word[i], arpabet_mapping)]

\* lines 212-226, with arpabet_mapping loaded
arpabet_to_ipa(word) ==
    [i \in 1..Len(word) |->
        IF word[i] \in DOMAIN arpabet_mapping THEN arpabet_mapping[word[i]]
        ELSE word[i]]

\* lines 236-242: what process_word makes of word_to_tokens' Ok value
process_word_tail(ids, tokens, word) ==
    IF ids = <<>>
    THEN [ok |-> FALSE, value |-> <<>>, err |-> "No tokens generated"]
    ELSE [ok |-> TRUE, value |-> arpabet_to_ipa(tokens), err |-> ""]

\* -------------------------------------------------------- process_senteces
bos == <<"^">>
eos == <<"$">>
pad == <<"_">>

\* line 284
punctuation_of(word) ==
    IF word = <<>> THEN " "
    ELSE IF is_ascii_punctuation(word[Len(word)]) THEN word[Len(word)] ELSE " "

\* lines 289-295: what one word adds to processed_sentence
push_word(sentence, phonemes, punct) ==
    sentence \o (IF phonemes # <<>> THEN join(phonemes, <<>>) ELSE <<>>)
             \o (IF punct # " " THEN <<punct>> ELSE <<>>)
             \o <<" ">>

\* lines 297-301
close_sentence_untrimmed(sentence) ==
    join(chars_to_strings(sentence), pad) \o pad \o eos

close_sentence(sentence) ==
    join(chars_to_strings(trim(sentence)), pad) \o pad \o eos

\* ------------------------------------------------------------------- Init
\* lines 172-176: the three named inputs of a decoder run; none before the
\* first run
no_inputs ==
    [input_ids |-> <<>>, encoder_hidden_states |-> <<>>,
     encoder_attention_mask |-> <<>>]

decoder_inputs(ids, hidden_states, mask) ==
    [input_ids |-> ids, encoder_hidden_states |-> hidden_states,
     encoder_attention_mask |-> mask]

\* lines 116-140: the tokenizer and the encoder are outside the repository.
\* encode(word, true) (line 116) asks the tokenizer to add its special
\* tokens, so the number of ids is the tokenizer's choice: a "plain"
\* tokenizer gives one id per character, a "special" one puts these between
\* two special ids.  An id is written as the piece it stands for.
Tokenizers == {"plain", "special"}

encode(tokenizer, w) ==
    IF tokenizer = "special" THEN <<"[CLS]">> \o w \o <<"[SEP]">> ELSE w

\* line 117: what the tokenizer may return for a word
get_ids(w) == {encode(tokenizer, w) : tokenizer \in Tokenizers}

\* line 118: vec![1; input_ids.len()], a 1 per id
attention_mask_of(input_ids) == [i \in 1..Len(input_ids) |-> 1]

\* lines 127-139: the encoder's "last_hidden_state" is a value that the ids
\* it was run on determine.
encoder_output_of(input_ids) == <<"last_hidden_state", input_ids>>

\* line 193: decoder_ids.push(next_id)
push_over_last(ids, next_id) == [ids EXCEPT ![Len(ids)] = next_id]

push(ids, next_id) == Append(ids, next_id)

\* The text pipeline before its first step: every local is empty.
PipelineIdle ==
    /\ sentences = <<>>
    /\ si = 1
    /\ words = <<>>
    /\ wi = 1
    /\ punctuation = " "
    /\ word_without_punctuation = <<>>
    /\ processed_sentence = <<>>
    /\ rendering = <<>>
    /\ processed_sentences = <<>>
    /\ decoder_ids = <<>>
    /\ decoded_ids = <<>>
    /\ decoded_tokens = <<>>
    /\ step = 0
    /\ session_runs = 0
    /\ encoder_output = <<>>
    /\ encoder_attention_mask = <<>>
    /\ inputs = no_inputs
    /\ selected = <<>>
    /\ decoder_ran = FALSE
    /\ net_failed = FALSE
    /\ token_phonemes = <<>>
    /\ error = ""
    /\ ps_result = "None"
    /\ ps_value = <<>>
    /\ pt_result = "None"
    /\ text_out = <<>>
    /\ m_words = <<>>
    /\ arpabet_words = <<>>
    /\ ipa_words = <<>>
    /\ ipa_string = <<>>
    /\ formated_ipa_string = <<>>
    /\ prev_was_space = FALSE
    /\ fi = 1
    /\ config_phoneme_id_map = <<>>
    /\ phonemes_ids = <<>>

\* arpabet_to_ipa has not been called
MapperIdle ==
    /\ mapper_word = <<>>
    /\ ipa_phonemes = <<>>

\* process_ipa_string has not been called
InferenceIdle ==
    /\ ipa_string_arg = <<>>
    /\ phonemes_len = -1
    /\ model_runs = 0
    /\ inference_result = "None"

\* write_wav_file has not been called: no waveform, no file
WavIdle ==
    /\ overflow_checks = FALSE
    /\ waveform = <<>>
    /\ silence = <<0, 0, 0, 0, 0, 0, 0, 0>>
    /\ sample_rate = <<0, 0, 0, 0, 0, 0, 0, 0>>
    /\ samples = <<>>
    /\ file = <<>>
    /\ file_zeros = <<0, 0, 0, 0, 0, 0, 0, 0>>

Init ==
    /\ entry \in {"process_text", "main"}
    /\ text \in (IF entry = "main" THEN Texts ELSE LibTexts)
    /\ loaded \in BOOLEAN
    /\ (entry = "main" => loaded)
    /\ pc = "Start"
    /\ PipelineIdle
    /\ MapperIdle
    /\ InferenceIdle
    /\ WavIdle

\* An Err (or a panic) on the way: process_senteces returns the Err through
\* its `?` and process_text's unwrap (line 316) panics on it, so neither
\* returns a value.
Failed(how, message) ==
    /\ error' = message
    /\ ps_result' = how
    /\ pt_result' = "Panic"
    /\ UNCHANGED <<ps_value, text_out>>

\* ----------------------------------------------------------- process_text
\* lines 311-316, up to the call of process_senteces
ProcessText ==
    /\ entry = "process_text" /\ pc = "Start"
    /\ sentences' = text_to_sentences(text)
    /\ si' = 1
    /\ processed_sentences' = <<>>
    /\ pc' = "Sentences"
    /\ UNCHANGED <<entry, text, loaded, words, wi, processed_sentence,
                   rendering, net_failed, token_phonemes, decoder_ran>>
    /\ UNCHANGED <<decodeVars, wordVars, resultVars, mainVars, idVars>>
    /\ UNCHANGED stageVars

\* lines 275-282: the next sentence of process_senteces' outer loop
BeginSentence ==
    /\ entry = "process_text" /\ pc = "Sentences"
    /\ si <= Len(sentences)
    /\ processed_sentence' = bos
    /\ words' = split_whitespace(sentences[si])
    /\ wi' = 1
    /\ pc' = "Words"
    /\ UNCHANGED <<entry, text, loaded, sentences, si, processed_sentences,
                   rendering, net_failed, token_phonemes, decoder_ran>>
    /\ UNCHANGED <<decodeVars, wordVars, resultVars, mainVars, idVars>>
    /\ UNCHANGED stageVars

\* lines 283-287, process_word up to word_to_tokens (232-236), word_to_tokens
\* up to the call of greedy_decode (116-145) and greedy_decode's first lines
\* (156-163).  kind is how the tokenizer and the encoder run end:
\* "tensor_err" is an Err before the encoder runs (the tokenizer's, line 116,
\* or one of from_shape_vec and Tensor::from_array, lines 120-129), "err" an
\* Err of the encoder run or of what follows it (lines 130-139), "panic" the
\* expect of line 133.
BeginWord ==
    /\ entry = "process_text" /\ pc = "Words"
    /\ wi <= Len(words)
    /\ LET word == words[wi]
           punct == punctuation_of(word)
       IN  /\ punctuation' = punct
           /\ word_without_punctuation' = trim_end_matches(word, punct)
    /\ IF ~loaded
       THEN /\ pc' = "Failed"
            /\ Failed("Err", "Models and tokenizer not loaded")
            /\ UNCHANGED <<decodeVars, net_failed>>
       ELSE \E kind \in {"ok", "tensor_err", "err", "panic"},
               input_ids \in get_ids(word_without_punctuation') :
            LET to == IF loop_continues(0, MaxLen) THEN "Stepping" ELSE "Decoded"
                next_pc == try_pc(kind, to)
            IN  /\ pc' = next_pc
                /\ net_failed' = (net_failed \/ kind = "err")
                /\ IF next_pc = "Failed"
                   THEN /\ Failed(IF kind = "panic" THEN "Panic" ELSE "Err",
                                  IF kind = "tensor_err" THEN "encoder input"
                                  ELSE "encoder")
                        /\ UNCHANGED decodeVars
                   ELSE /\ decoder_ids' = <<bos_id>>
                        /\ decoded_ids' = <<>>
                        /\ decoded_tokens' = <<>>
                        /\ step' = 0
                        /\ session_runs' = 0
                        /\ encoder_output' = encoder_output_of(input_ids)
                        /\ encoder_attention_mask' =
                               attention_mask_of(input_ids)
                        /\ inputs' = no_inputs
                        /\ selected' = <<>>
                        /\ UNCHANGED resultVars
    /\ UNCHANGED <<entry, text, loaded, sentences, si, words, wi,
                   processed_sentence, processed_sentences, token_phonemes,
                   decoder_ran, rendering>>
    /\ UNCHANGED <<mainVars, idVars>>
    /\ UNCHANGED stageVars

\* lines 165-207: one iteration of greedy_decode's loop.  kind is how the
\* iteration ends: "tensor_err" is an Err of one of the three
\* Value::from_array calls (lines 169-171), which returns before the decoder
\* is run; "err" is an Err of the decoder run (line 177) or of
\* try_extract_tensor (line 181); "panic" is a run without a "logits" output
\* or with one that is not of rank 3 (lines 180-184).  row is the logits row
\* of the last position.
DecodeStep ==
    /\ entry = "process_text" /\ pc = "Stepping"
    /\ \E kind \in {"ok", "tensor_err", "err", "panic"}, row \in LogitRows :
        LET seq_len == Len(decoder_ids)
            next_id == next_id_of(seq_len, flat_logits_of(seq_len, row))
            after == IF breaks_on(next_id) THEN "Decoded"
                     ELSE IF loop_continues(step + 1, MaxLen) THEN "Stepping"
                     ELSE "Decoded"
            next_pc == try_pc(kind, IF kind = "ok" THEN after ELSE "Stepping")
            runs == kind # "tensor_err"
        IN  /\ pc' = next_pc
            /\ session_runs' = IF runs THEN session_runs + 1 ELSE session_runs
            /\ inputs' = IF runs
                          THEN decoder_inputs(decoder_ids, encoder_output,
                                              encoder_attention_mask)
                          ELSE inputs
            /\ UNCHANGED <<encoder_output, encoder_attention_mask>>
            /\ decoder_ran' = (decoder_ran \/ runs)
            /\ net_failed' = (net_failed \/ kind = "err")
            /\ IF next_pc = "Failed"
               THEN /\ Failed(IF kind = "panic" THEN "Panic" ELSE "Err",
                              IF runs THEN "decoder" ELSE "from_array")
                    /\ UNCHANGED <<decoder_ids, decoded_ids, decoded_tokens, step,
                                   selected>>
               ELSE IF kind # "ok"
               THEN UNCHANGED <<decoder_ids, decoded_ids, decoded_tokens, step,
                                selected, resultVars>>
               ELSE /\ decoder_ids' = push(decoder_ids, next_id)
                    /\ selected' = Append(selected, next_id)
                    /\ IF breaks_on(next_id)
                       THEN UNCHANGED <<decoded_ids, decoded_tokens, step>>
                       ELSE /\ step' = step + 1
                            /\ IF is_content(next_id)
                               THEN /\ decoded_ids' = Append(decoded_ids, next_id)
                                    /\ decoded_tokens' =
                                           Append(decoded_tokens, tok_str(next_id))
                               ELSE UNCHANGED <<decoded_ids, decoded_tokens>>
                    /\ UNCHANGED resultVars
    /\ UNCHANGED <<entry, text, loaded, sentences, si, words, wi, rendering,
                   processed_sentence, processed_sentences, token_phonemes>>
    /\ UNCHANGED <<wordVars, mainVars, idVars>>
    /\ UNCHANGED stageVars

\* greedy_decode's return (209), word_to_tokens' (147), the rest of
\* process_word (237-242) and of the word loop's body (289-295).  The
\* locals of the finished greedy_decode call are dropped.
FinishWord ==
    /\ entry = "process_text" /\ pc = "Decoded"
    /\ LET r == process_word_tail(decoded_ids, decoded_tokens,
                                  word_without_punctuation)
       IN  IF r.ok
           THEN /\ token_phonemes' = r.value
                /\ processed_sentence' =
                       push_word(processed_sentence, r.value, punctuation)
                /\ wi' = wi + 1
                /\ pc' = "Words"
                /\ decoder_ids' = <<>>
                /\ decoded_ids' = <<>>
                /\ decoded_tokens' = <<>>
                /\ step' = 0
                /\ session_runs' = 0
                /\ encoder_output' = <<>>
                /\ encoder_attention_mask' = <<>>
                /\ inputs' = no_inputs
                /\ selected' = <<>>
                /\ UNCHANGED resultVars
           ELSE /\ pc' = "Failed"
                /\ Failed("Err", r.err)
                /\ UNCHANGED <<token_phonemes, processed_sentence, wi,
                               decodeVars>>
    /\ UNCHANGED <<entry, text, loaded, sentences, si, words, rendering,
                   processed_sentences, net_failed, decoder_ran>>
    /\ UNCHANGED <<wordVars, mainVars, idVars>>
    /\ UNCHANGED stageVars

\* lines 297-305: the sentence's words are done
EndSentence ==
    /\ entry = "process_text" /\ pc = "Words"
    /\ wi > Len(words)
    /\ rendering' = Tail(processed_sentence)
    /\ LET closed == close_sentence(processed_sentence)
       IN  /\ processed_sentence' = closed
           /\ processed_sentences' =
                  IF closed # <<>> THEN Append(processed_sentences, closed)
                  ELSE processed_sentences
    /\ si' = si + 1
    /\ pc' = "Sentences"
    /\ UNCHANGED <<entry, text, loaded, sentences, words, wi, net_failed,
                   token_phonemes, decoder_ran>>
    /\ UNCHANGED <<decodeVars, wordVars, resultVars, mainVars, idVars>>
    /\ UNCHANGED stageVars

\* line 308 and line 316: process_senteces returns Ok and process_text joins
ReturnText ==
    /\ entry = "process_text" /\ pc = "Sentences"
    /\ si > Len(sentences)
    /\ ps_result' = "Ok"
    /\ ps_value' = processed_sentences
    /\ pt_result' = "Ok"
    /\ text_out' = join(processed_sentences, <<>>)
    /\ pc' = "Done"
    /\ UNCHANGED <<entry, text, loaded, sentences, si, words, wi, rendering,
                   processed_sentence, processed_sentences, net_failed,
                   token_phonemes, decoder_ran, error>>
    /\ UNCHANGED <<decodeVars, wordVars, mainVars, idVars>>
    /\ UNCHANGED stageVars

\* ---------------------------------------------------------------- main.rs
\* line 87
sentance_endings == {".", "!", "?", ";"}

\* str::split_inclusive(pred): every piece ends with its matched character;
\* no empty piece follows a match at the end
RECURSIVE split_inclusive_loop(_, _, _)
split_inclusive_loop(s, cur, acc) ==
    IF s = <<>> THEN (IF cur = <<>> THEN acc ELSE Append(acc, cur))
    ELSE IF Head(s) \in sentance_endings
         THEN split_inclusive_loop(Tail(s), <<>>,
                                   Append(acc, Append(cur, Head(s))))
         ELSE split_inclusive_loop(Tail(s), Append(cur, Head(s)), acc)

\* lines 89-93
main_sentences(example_text) ==
    LET pieces == split_inclusive_loop(example_text, <<>>, <<>>)
        kept == SelectSeq(pieces, LAMBDA p : trim(p) # <<>>)
    IN  [i \in 1..Len(kept) |-> trim(kept[i])]

\* lines 97-99
main_words(ss) == [i \in 1..Len(ss) |-> split_whitespace(ss[i])]

\* lines 103-110, the characters clear_word replaces by ""
symbols_to_replace == {"^", "_", ",", ";", "(", ")"}

\* lines 112-118
clear_word(word) == SelectSeq(word, LAMBDA c : c \notin symbols_to_replace)

\* str::to_uppercase on the letters of the model
to_uppercase(s) ==
    [i \in 1..Len(s) |->
        CASE s[i] = "a" -> "A" [] s[i] = "k" -> "K" [] OTHER -> s[i]]

\* lines 60-78: the pronunciation dictionary, read from cmudict-0.7b.txt.
\* The file is not part of the repository; the model's dictionary holds the
\* entry of the word A.
phoneme_id_map == (<<"A">> :> <<"A", "H", "0">>)

\* lines 123-138
arpabet_word_of(word) ==
    LET cleaned_word == clear_word(word) IN
    IF cleaned_word = <<>> THEN <<>>
    ELSE LET cleaned == SelectSeq(cleaned_word,
                                  LAMBDA c : c \notin sentance_endings)
         IN  IF to_uppercase(cleaned) \in DOMAIN phoneme_id_map
             THEN phoneme_id_map[to_uppercase(cleaned)]
             ELSE cleaned

\* lines 145-185: main's ARPAbet -> IPA table, the entries of AH and K.
\* "@" stands for the schwa, "'" for the primary and "%" for the secondary
\* stress mark.
main_arpabet_to_ipa ==
    (<<"A", "H">> :> <<"@">>) @@ (<<"A", "H", "0">> :> <<"@">>) @@
    (<<"A", "H", "1">> :> <<"'", "@">>) @@
    (<<"A", "H", "2">> :> <<"%", "@">>) @@ (<<"K">> :> <<"k">>)

\* lines 190-208
ipa_word_of(arpabet_word) ==
    IF arpabet_word = <<>> THEN <<>>
    ELSE LET parts == split_whitespace(arpabet_word)
             converted == [i \in 1..Len(parts) |->
                              IF parts[i] \in DOMAIN main_arpabet_to_ipa
                              THEN main_arpabet_to_ipa[parts[i]]
                              ELSE parts[i]]
         IN  IF converted = <<>> THEN arpabet_word ELSE join(converted, <<>>)

\* lines 214-217
ipa_string_of(iw) ==
    join([i \in 1..Len(iw) |-> join(iw[i], <<" ">>) \o <<".">>], <<" ">>)

char_separator == <<"_">>
string_start == <<"^">>

\* lines 87-99
Segment ==
    /\ entry = "main" /\ pc = "Start"
    /\ sentences' = main_sentences(text)
    /\ m_words' = main_words(main_sentences(text))
    /\ pc' = "Segmented"
    /\ UNCHANGED <<entry, text, si, arpabet_words, ipa_words, ipa_string,
                   formated_ipa_string, prev_was_space, fi>>
    /\ UNCHANGED <<libVars, decodeVars, wordVars, resultVars, idVars>>
    /\ UNCHANGED stageVars

\* lines 120-141
Phonemize ==
    /\ entry = "main" /\ pc = "Segmented"
    /\ arpabet_words' =
           [i \in 1..Len(m_words) |->
               [j \in 1..Len(m_words[i]) |-> arpabet_word_of(m_words[i][j])]]
    /\ pc' = "Phonemized"
    /\ UNCHANGED <<entry, text, sentences, si, m_words, ipa_words, ipa_string,
                   formated_ipa_string, prev_was_space, fi>>
    /\ UNCHANGED <<libVars, decodeVars, wordVars, resultVars, idVars>>
    /\ UNCHANGED stageVars

\* lines 187-224: the IPA words, the IPA string and the formatter's start
MapIpa ==
    /\ entry = "main" /\ pc = "Phonemized"
    /\ LET iw == [i \in 1..Len(arpabet_words) |->
                     [j \in 1..Len(arpabet_words[i]) |->
                         ipa_word_of(arpabet_words[i][j])]]
       IN  /\ ipa_words' = iw
           /\ ipa_string' = ipa_string_of(iw)
           /\ pc' = IF ipa_string_of(iw) = <<>> THEN "Formatted"
                    ELSE "Formatting"
    /\ formated_ipa_string' = string_start
    /\ prev_was_space' = FALSE
    /\ fi' = 1
    /\ UNCHANGED <<entry, text, sentences, si, m_words, arpabet_words>>
    /\ UNCHANGED <<libVars, decodeVars, wordVars, resultVars, idVars>>
    /\ UNCHANGED stageVars

\* lines 226-239: one iteration of the formatter's loop
FormatChar ==
    /\ entry = "main" /\ pc = "Formatting"
    /\ LET c == ipa_string[fi] IN
       IF c = " "
       THEN IF ~prev_was_space
            THEN /\ formated_ipa_string' = formated_ipa_string \o char_separator
                 /\ prev_was_space' = TRUE
            ELSE UNCHANGED <<formated_ipa_string, prev_was_space>>
       ELSE /\ formated_ipa_string' =
                   (IF ~ends_with(formated_ipa_string, "^") /\ ~prev_was_space
                    THEN formated_ipa_string \o char_separator
                    ELSE formated_ipa_string) \o <<c>>
            /\ prev_was_space' = FALSE
    /\ fi' = fi + 1
    /\ pc' = IF fi = Len(ipa_string) THEN "Formatted" ELSE "Formatting"
    /\ UNCHANGED <<entry, text, sentences, si, m_words, arpabet_words,
                   ipa_words, ipa_string>>
    /\ UNCHANGED <<libVars, decodeVars, wordVars, resultVars, idVars>>
    /\ UNCHANGED stageVars

\* ------------------------------------------------- the phoneme-id vocabulary
\* config.phoneme_id_map is read from the model's JSON configuration, which
\* is not part of the repository.  The tables of the model: one that knows
\* the markers and some characters, one whose entries hold two ids or none
\* and that lacks the separator, and the empty table.
Vocabularies ==
    { ("^" :> <<1>>) @@ ("$" :> <<2>>) @@ ("_" :> <<0>>) @@ (" " :> <<3>>) @@
      ("!" :> <<4>>) @@ ("." :> <<10>>) @@ ("a" :> <<14>>) @@ ("k" :> <<23>>),
      ("^" :> <<1>>) @@ ("a" :> <<14, 15>>) @@ ("k" :> <<>>) @@ ("@" :> <<59>>),
      <<>> }

\* filter_map + flat_map on one character: its ids when the table has it
ids_of_char_padded(c, table) ==
    IF c \in DOMAIN table THEN table[c] ELSE <<0>>

ids_of_char(c, table) ==
    IF c \in DOMAIN table THEN table[c] ELSE <<>>

\* model_handler.rs lines 59-71 (and main.rs lines 253-257)
RECURSIVE ipa_string_to_phoneme_ids(_, _)
ipa_string_to_phoneme_ids(s, table) ==
    IF s = <<>> THEN <<>>
    ELSE ids_of_char(Head(s), table)
         \o ipa_string_to_phoneme_ids(Tail(s), table)

\* main.rs lines 253-257.  The configuration is read at lines 53-57 and first
\* used here.
MainPhonemeIds ==
    /\ entry = "main" /\ pc = "Formatted"
    /\ \E table \in Vocabularies :
        /\ config_phoneme_id_map' = table
        /\ phonemes_ids' = ipa_string_to_phoneme_ids(formated_ipa_string, table)
    /\ pc' = "Vectorized"
    /\ UNCHANGED <<entry, text, sentences, si>>
    /\ UNCHANGED <<libVars, decodeVars, wordVars, resultVars, mainVars>>
    /\ UNCHANGED stageVars

\* Model::new (line 46, the configuration) and Model::ipa_string_to_phoneme_ids
\* (lines 59-71) on the string process_text returned
IpaStringToPhonemeIds ==
    /\ entry = "process_text" /\ pc = "Done"
    /\ \E table \in Vocabularies :
        /\ config_phoneme_id_map' = table
        /\ phonemes_ids' = ipa_string_to_phoneme_ids(text_out, table)
    /\ pc' = "Vectorized"
    /\ UNCHANGED <<entry, text, sentences, si>>
    /\ UNCHANGED <<libVars, decodeVars, wordVars, resultVars, mainVars>>
    /\ UNCHANGED stageVars

\* -------------------------------------------------------- the symbol mapper
\* The tokens handed to the mapper: the bases K and AH (keys of main's
\* table), the base Q (no key of any table), each bare and with a stress
\* digit.
ArpabetBases == {<<"K">>, <<"A", "H">>, <<"Q">>}
ArpabetTokens ==
    ArpabetBases \cup {Append(b, d) : b \in ArpabetBases, d \in stress_digits}
TokenWords == StringsUpTo(MaxTokens, ArpabetTokens)

\* PhonemeGen::new leaves arpabet_mapping None and load (line 96) sets it;
\* main.rs builds its table in place.
MapperInit ==
    /\ entry \in {"arpabet_to_ipa", "main_ipa_words"}
    /\ text = <<>>
    /\ loaded \in BOOLEAN
    /\ (entry = "main_ipa_words" => loaded)
    /\ pc = "Mapper"
    /\ PipelineIdle
    /\ mapper_word \in TokenWords
    /\ ipa_phonemes = <<>>
    /\ InferenceIdle
    /\ WavIdle

\* phoneme_gen.rs lines 212-226
ArpabetToIpa ==
    /\ entry = "arpabet_to_ipa" /\ pc = "Mapper"
    /\ IF loaded
       THEN /\ ipa_phonemes' = arpabet_to_ipa(mapper_word)
            /\ pc' = "Mapped"
            /\ UNCHANGED error
       ELSE /\ error' = "ARPAbet mapping not loaded"
            /\ pc' = "Failed"
            /\ UNCHANGED ipa_phonemes
    /\ UNCHANGED <<entry, text, loaded, sentences, si, words, wi, rendering,
                   processed_sentence, processed_sentences, net_failed,
                   token_phonemes, decoder_ran, ps_result, ps_value,
                   pt_result, text_out, mapper_word>>
    /\ UNCHANGED <<decodeVars, wordVars, mainVars, idVars, inferenceVars,
                   wavVars>>

\* main.rs lines 187-208 on one dictionary entry, the phonemes of which are
\* separated by spaces
MainIpaWords ==
    /\ entry = "main_ipa_words" /\ pc = "Mapper"
    /\ ipa_phonemes' = <<ipa_word_of(join(mapper_word, <<" ">>))>>
    /\ pc' = "Mapped"
    /\ UNCHANGED <<entry, text, sentences, si, mapper_word>>
    /\ UNCHANGED <<libVars, decodeVars, wordVars, resultVars, mainVars, idVars,
                   inferenceVars, wavVars>>

MapperNext ==
    \/ ArpabetToIpa
    \/ MainIpaWords

MapperSpec == MapperInit /\ [][MapperNext]_vars

\* --------------------------------------------------- the synthesis invoker
\* The strings handed to process_ipa_string.
IpaStrings == StringsUpTo(MaxTextLen, {"^", "a", "_"})

\* How the three Tensor::from_array calls (lines 106-108) and the run of the
\* vocoder network (line 116) end.  Both belong to the ort crate and to the
\* ONNX graph read from model_path; the repository's code does not decide
\* their outcome, for an empty id sequence either.
InferenceOutcomes == {"ok", "tensor_err", "run_err"}

\* a prepare_input that refuses the empty sequence
prepare_input_rejects_empty(ids, len) == len > 0 /\ 1 * len = Len(ids)

\* lines 77-81: Array2::from_shape_vec([1, phonemes_len], phonemes_ids) is Ok
\* whenever 1 * phonemes_len is the vector's length, that is always, for the
\* empty vector too
prepare_input_ok(ids, len) == 1 * len = Len(ids)

\* Model::new (line 46, the configuration); a Model is at hand
SynthInit ==
    /\ entry = "process_ipa_string"
    /\ text = <<>>
    /\ loaded = TRUE
    /\ pc = "Ipa"
    /\ PipelineIdle
    /\ MapperIdle
    /\ InferenceIdle
    /\ WavIdle

\* line 123, and prepare_input (lines 77-97) called from line 104
ProcessIpaString ==
    /\ entry = "process_ipa_string" /\ pc = "Ipa"
    /\ \E s \in IpaStrings, table \in Vocabularies :
        LET ids == ipa_string_to_phoneme_ids(s, table) IN
        /\ ipa_string_arg' = s
        /\ config_phoneme_id_map' = table
        /\ phonemes_ids' = ids
        /\ phonemes_len' = Len(ids)
        /\ IF prepare_input_ok(ids, Len(ids))
           THEN pc' = "Prepared" /\ UNCHANGED inference_result
           ELSE pc' = "Failed" /\ inference_result' = "Err"
    /\ UNCHANGED <<entry, text, sentences, si, model_runs>>
    /\ UNCHANGED <<libVars, decodeVars, wordVars, resultVars, mainVars,
                   mapperVars, wavVars>>

\* lines 106-116: the tensors, and the one run of the network
RunInference ==
    /\ entry = "process_ipa_string" /\ pc = "Prepared"
    /\ \E kind \in InferenceOutcomes :
        /\ model_runs' = IF kind = "tensor_err" THEN model_runs
                         ELSE model_runs + 1
        /\ IF kind = "ok"
           THEN pc' = "Inferred" /\ UNCHANGED inference_result
           ELSE pc' = "Failed" /\ inference_result' = "Err"
    /\ UNCHANGED <<entry, text, sentences, si, ipa_string_arg, phonemes_len>>
    /\ UNCHANGED <<libVars, decodeVars, wordVars, resultVars, mainVars,
                   mapperVars, idVars, wavVars>>

\* lines 125-127: outputs["output"] panics when the graph has no such
\* output, try_extract_tensor may return Err
ExtractWaveform ==
    /\ entry = "process_ipa_string" /\ pc = "Inferred"
    /\ \E kind \in {"ok", "err", "panic"} :
        /\ inference_result' =
               CASE kind = "ok" -> "Ok" [] kind = "err" -> "Err"
                 [] OTHER -> "Panic"
        /\ pc' = IF kind = "ok" THEN "Returned" ELSE "Failed"
    /\ UNCHANGED <<entry, text, sentences, si, ipa_string_arg, phonemes_len,
                   model_runs>>
    /\ UNCHANGED <<libVars, decodeVars, wordVars, resultVars, mainVars,
                   mapperVars, idVars, wavVars>>

SynthNext ==
    \/ ProcessIpaString
    \/ RunInference
    \/ ExtractWaveform

SynthSpec == SynthInit /\ [][SynthNext]_vars

\* ------------------------------------------------------------ the WAV writer
\* u32, usize and u64 values are kept as their little-endian bytes, so that
\* the 32-bit arithmetic of the header keeps its width.
RECURSIVE to_le_bytes(_, _)
to_le_bytes(n, k) ==
    IF k = 0 THEN <<>> ELSE <<n % 256>> \o to_le_bytes(n \div 256, k - 1)

\* `as u32` on a u64 or a usize: the low 32 bits, silently
as_u32(bytes) == SubSeq(bytes, 1, 4)

\* a + b on u32, byte by byte; the fifth byte of the sum is the carry out
RECURSIVE add_bytes(_, _, _)
add_bytes(a, b, carry) ==
    IF a = <<>> THEN <<carry>>
    ELSE LET t == Head(a) + Head(b) + carry IN
         <<t % 256>> \o add_bytes(Tail(a), Tail(b), t \div 256)

\* a + b on u64 and usize values that stay below 2^64
u64_add(a, b) == SubSeq(add_bytes(a, b, 0), 1, 8)

u32_add(a, b) ==
    LET r == add_bytes(a, b, 0) IN
    [value |-> SubSeq(r, 1, 4), overflow |-> r[5] # 0]

\* x * 2 on u32
u32_mul2(x) == u32_add(x, x)

\* waveform.len(): the samples of the waveform and those of the silence
\* after them
waveform_len(first, rest) == u64_add(to_le_bytes(Len(first), 8), rest)

\* the size of the data counted in samples
subchunk2_size_in_samples(len) ==
    [value |-> as_u32(len), overflow |-> FALSE]

\* lines 142 and 153: waveform.len() as u32 * 2
subchunk2_size(len) == u32_mul2(as_u32(len))

\* "RIFF", "WAVE", "fmt " and "data" as bytes
RIFF == <<82, 73, 70, 70>>
WAVE == <<87, 65, 86, 69>>
fmt == <<102, 109, 116, 32>>
data == <<100, 97, 116, 97>>

\* lines 140-154: the header, and whether one of its three products or its
\* sum overflows u32
wav_header(len, rate) ==
    LET bytes_of_samples == subchunk2_size(len)
        chunk_size == u32_add(to_le_bytes(36, 4), bytes_of_samples.value)
        byte_rate == u32_mul2(as_u32(rate))
    IN  [overflow |-> \/ bytes_of_samples.overflow
                      \/ chunk_size.overflow
                      \/ byte_rate.overflow,
         bytes |-> RIFF \o chunk_size.value \o WAVE \o fmt
                   \o to_le_bytes(16, 4) \o to_le_bytes(1, 2)
                   \o to_le_bytes(1, 2) \o as_u32(rate) \o byte_rate.value
                   \o to_le_bytes(2, 2) \o to_le_bytes(16, 2)
                   \o data \o bytes_of_samples.value]

\* An f32 sample of the model is NaN or a multiple of one half, held as its
\* number of halves; its product with 32767.0 is exact in f32.
F32(h) == [nan |-> FALSE, halves |-> h]
NaN == [nan |-> TRUE, halves |-> 0]
SampleValues == {F32(h) : h \in {-5, -2, -1, 0, 1, 2, 5}} \cup {NaN}
Waveforms == StringsUpTo(MaxSamples, SampleValues)

\* i16::MAX, i16::MIN
i16_MAX == 32767
i16_MIN == -32768

\* sample * i16::MAX as f32, cut towards zero
truncated(sample) ==
    LET twice == sample.halves * i16_MAX IN
    IF twice >= 0 THEN twice \div 2 ELSE -((-twice) \div 2)

\* a cast that keeps the low 16 bits of the truncated value
f32_as_i16_wrapping(sample) ==
    IF sample.nan THEN 0
    ELSE ((truncated(sample) - i16_MIN) % 65536) + i16_MIN

\* line 159, `as i16` on an f32: NaN gives 0 and a value outside the range
\* of i16 gives the nearest bound
f32_as_i16(sample) ==
    IF sample.nan THEN 0
    ELSE IF truncated(sample) > i16_MAX THEN i16_MAX
    ELSE IF truncated(sample) < i16_MIN THEN i16_MIN
    ELSE truncated(sample)

\* i16::to_le_bytes: the two bytes of the two's complement
i16_to_le_bytes(v) == to_le_bytes((v + 65536) % 65536, 2)

\* line 161: flat_map(|s| s.to_le_bytes())
RECURSIVE sample_bytes(_)
sample_bytes(ss) ==
    IF ss = <<>> THEN <<>>
    ELSE i16_to_le_bytes(Head(ss)) \o sample_bytes(Tail(ss))

\* A waveform of the model is at most MaxSamples samples followed by a
\* silence of 0, 2^31 - 19, 2^31 or 2^32 samples 0.0: waveform.len() is
\* below, at and above 2^31 - 18, from where 36 + len * 2 overflows u32,
\* at and above 2^31, from where len * 2 does, and at and above 2^32, where
\* `as u32` cuts it.
Silences ==
    { <<0, 0, 0, 0, 0, 0, 0, 0>>, <<237, 255, 255, 127, 0, 0, 0, 0>>,
      <<0, 0, 0, 128, 0, 0, 0, 0>>, <<0, 0, 0, 0, 1, 0, 0, 0>> }

\* The sample rates of the model: 22050, 2^31 and 2^32 + 22050.
SampleRates ==
    { <<34, 86, 0, 0, 0, 0, 0, 0>>, <<0, 0, 0, 128, 0, 0, 0, 0>>,
      <<34, 86, 0, 0, 1, 0, 0, 0>> }

\* write_wav_file (model_handler.rs) or the same lines of main (main.rs
\* 318-348) are about to run, in a build with or without overflow checks
WavInit ==
    /\ entry \in {"write_wav_file", "main_wav"}
    /\ text = <<>>
    /\ loaded = TRUE
    /\ pc = "Wav"
    /\ PipelineIdle
    /\ MapperIdle
    /\ InferenceIdle
    /\ overflow_checks \in BOOLEAN
    /\ waveform \in Waveforms
    /\ silence \in Silences
    /\ sample_rate \in SampleRates
    /\ samples = <<>>
    /\ file = <<>>
    /\ file_zeros = <<0, 0, 0, 0, 0, 0, 0, 0>>

\* lines 137-156: File::create, the header and its write_all.  The header
\* is built before anything is written, so an overflow panic leaves the
\* file created and empty.
WriteHeader ==
    /\ entry \in {"write_wav_file", "main_wav"} /\ pc = "Wav"
    /\ LET header == wav_header(waveform_len(waveform, silence), sample_rate)
       IN  IF overflow_checks /\ header.overflow
           THEN pc' = "Panicked" /\ UNCHANGED file
           ELSE pc' = "HeaderWritten" /\ file' = header.bytes
    /\ UNCHANGED <<entry, text, sentences, si, overflow_checks, waveform,
                   silence, sample_rate, samples, file_zeros>>
    /\ UNCHANGED <<libVars, decodeVars, wordVars, resultVars, mainVars, idVars,
                   mapperVars, inferenceVars>>

\* lines 158-167: the samples and their write_all.  A sample 0.0 of the
\* silence is cast to the i16 0, whose two bytes are 0.
WriteSamples ==
    /\ entry \in {"write_wav_file", "main_wav"} /\ pc = "HeaderWritten"
    /\ LET converted == [i \in 1..Len(waveform) |-> f32_as_i16(waveform[i])]
       IN  /\ samples' = converted
           /\ file' = file \o sample_bytes(converted)
    /\ file_zeros' = u64_add(silence, silence)
    /\ pc' = "Written"
    /\ UNCHANGED <<entry, text, sentences, si, overflow_checks, waveform,
                   silence, sample_rate>>
    /\ UNCHANGED <<libVars, decodeVars, wordVars, resultVars, mainVars, idVars,
                   mapperVars, inferenceVars>>

WavNext ==
    \/ WriteHeader
    \/ WriteSamples

WavSpec == WavInit /\ [][WavNext]_vars

Next ==
    \/ ProcessText
    \/ BeginSentence
    \/ BeginWord
    \/ DecodeStep
    \/ FinishWord
    \/ EndSentence
    \/ ReturnText
    \/ IpaStringToPhonemeIds
    \/ Segment
    \/ Phonemize
    \/ MapIpa
    \/ FormatChar
    \/ MainPhonemeIds

Spec == Init /\ [][Next]_vars

\* process_text alone, on the texts of at most one character, which hold at
\* most one word: the runs that decode one word.  The decode loop is
\* synchronous code: a decoder run that returns is followed by the loop's
\* next iteration.
DecodeInit == Init /\ entry = "process_text" /\ loaded /\ Len(text) <= 1

DecodeNext ==
    \/ ProcessText
    \/ BeginSentence
    \/ BeginWord
    \/ DecodeStep
    \/ FinishWord
    \/ EndSentence
    \/ ReturnText

LiveSpec == DecodeInit /\ [][DecodeNext]_vars /\ WF_vars(DecodeStep)

\* ------------------------------------------------------------- the claims
\* The ids greedy_decode has selected so far
Emitted == Tail(decoder_ids)

InDecode == pc \in {"Stepping", "Decoded"}

\* C1: greedy_decode runs the decoder at most max_len times, whatever the
\* decoder returns, and every decode that has started leaves its loop.
C1_DecodeTerminates ==
    /\ [](session_runs <= MaxLen)
    /\ [](pc = "Stepping" => <>(pc # "Stepping"))

\* C1's case: a decode that never selected EOS and ended at the cap
C1_Witness ==
    /\ pc = "Decoded"
    /\ session_runs = MaxLen
    /\ \A i \in 1..Len(Emitted) : Emitted[i] # eos_id

\* The ids selected before the first EOS
RECURSIVE BeforeEos(_)
BeforeEos(ids) ==
    IF ids = <<>> \/ Head(ids) = eos_id THEN <<>>
    ELSE <<Head(ids)>> \o BeforeEos(Tail(ids))

\* C2: the step that selects EOS is the last one (no decoder run follows it,
\* so an EOS is only ever the last selected id and the loop is over once it
\* is there), and the content output holds no EOS and only ids selected
\* before it.
C2_EosEndsDecode ==
    InDecode =>
        /\ \A i \in 1..(Len(Emitted) - 1) : Emitted[i] # eos_id
        /\ (pc = "Stepping" => \A i \in 1..Len(Emitted) : Emitted[i] # eos_id)
        /\ session_runs = Len(Emitted)
        /\ \A i \in 1..Len(decoded_ids) : decoded_ids[i] # eos_id
        /\ Len(decoded_ids) <= Len(BeforeEos(Emitted))
        /\ \A i \in 1..Len(decoded_ids) :
               \E j \in 1..Len(BeforeEos(Emitted)) :
                   BeforeEos(Emitted)[j] = decoded_ids[i]

\* C2's case: EOS selected before the cap, after some content
C2_Witness ==
    /\ pc = "Decoded"
    /\ Len(Emitted) >= 2 /\ Len(Emitted) < MaxLen
    /\ Emitted[Len(Emitted)] = eos_id
    /\ decoded_ids # <<>>

\* The selected ids that are none of <s>, <pad>, </s>
ContentOf(ids) == SelectSeq(ids, LAMBDA id : id \notin {0, 1, 2})

\* C3 as stated: decoded_ids is the in-order subsequence of the selected ids
\* that are not 0, 1 or 2, and decoded_tokens[i] is the symbol-table string
\* of decoded_ids[i].
C3_TokensFromTable ==
    InDecode =>
        /\ decoded_ids = ContentOf(Emitted)
        /\ Len(decoded_tokens) = Len(decoded_ids)
        /\ \A i \in 1..Len(decoded_ids) :
               /\ decoded_ids[i] \in DOMAIN reverse_vocab_map
               /\ decoded_tokens[i] = reverse_vocab_map[decoded_ids[i]]

\* C3, amended: as above, but the token of an id the symbol table has no
\* entry for is the placeholder "<id>".
C3_ContentSubsequence ==
    InDecode =>
        /\ decoded_ids = ContentOf(Emitted)
        /\ \A i \in 1..Len(decoded_ids) : decoded_ids[i] \notin {0, 1, 2}
        /\ Len(decoded_tokens) = Len(decoded_ids)
        /\ \A i \in 1..Len(decoded_ids) :
               decoded_tokens[i] =
                   IF decoded_ids[i] \in DOMAIN reverse_vocab_map
                   THEN reverse_vocab_map[decoded_ids[i]]
                   ELSE <<"<">> \o to_decimal(decoded_ids[i]) \o <<">">>

\* C3's case: control ids selected between content ids, one of them without
\* an entry in the symbol table
C3_Witness ==
    /\ pc = "Decoded"
    /\ Len(decoded_ids) >= 2
    /\ Len(Emitted) > Len(decoded_ids)
    /\ \E i \in 1..Len(decoded_ids) : decoded_ids[i] \notin DOMAIN reverse_vocab_map
    /\ \E i \in 1..Len(decoded_ids) : decoded_ids[i] \in DOMAIN reverse_vocab_map

\* C4: a decode that produced no content makes the word's result the single
\* pass-through token, the word handed to process_word, and no error.
\* process_word returns the error "No tokens generated" instead (lines
\* 237-239), so the step out of an empty decode breaks this.
C4_PassThroughOnEmptyDecode ==
    [][(pc = "Decoded" /\ decoded_ids = <<>>) =>
          /\ pc' # "Failed"
          /\ error' = ""
          /\ token_phonemes' = <<word_without_punctuation>>]_vars

\* C5: once an encoder or decoder run has failed, the run is over: the
\* failing word yields no phonemes, process_senteces holds an Err and
\* process_text no value, whatever was processed before; and no decoder run
\* follows.
C5_NetworkFailureAborts ==
    /\ [](net_failed =>
            /\ pc = "Failed"
            /\ ps_result = "Err" /\ ps_value = <<>>
            /\ pt_result = "Panic" /\ text_out = <<>>)
    /\ [][net_failed => (session_runs' = session_runs
                         /\ decoder_ids' = decoder_ids
                         /\ token_phonemes' = token_phonemes)]_vars

\* C5's case: the network failed after a sentence had been processed
C5_Witness ==
    /\ net_failed
    /\ processed_sentences # <<>>
    /\ session_runs >= 2

\* C6: the default formatter's string begins with the start marker, has no
\* separator right after it, and has no two adjacent separators.
C6_FormatterGrammar ==
    (entry = "main" /\ pc \in {"Formatting", "Formatted", "Vectorized"}) =>
        /\ formated_ipa_string # <<>>
        /\ formated_ipa_string[1] = "^"
        /\ (Len(formated_ipa_string) >= 2 => formated_ipa_string[2] # "_")
        /\ \A i \in 1..(Len(formated_ipa_string) - 1) :
               ~(formated_ipa_string[i] = "_" /\ formated_ipa_string[i + 1] = "_")

\* s with the separator put between its characters, by position
Separated(s, out) ==
    /\ Len(out) = (IF s = <<>> THEN 0 ELSE 2 * Len(s) - 1)
    /\ \A i \in 1..Len(s) : out[2 * i - 1] = s[i]
    /\ \A i \in 1..(Len(s) - 1) : out[2 * i] = "_"

\* The sentence process_senteces pushed last
LastProcessed == processed_sentences[Len(processed_sentences)]

SentenceClosed == entry = "process_text" /\ pc = "Sentences" /\ si > 1

\* C7 as stated: the emitted string is the start marker, then the characters
\* of the trimmed rendering joined by the separator, then "_$".
C7_MarkerThenJoined ==
    SentenceClosed =>
        LET n == Len(LastProcessed) IN
        /\ n >= 3
        /\ LastProcessed[1] = "^"
        /\ Separated(trim(rendering), SubSeq(LastProcessed, 2, n - 2))
        /\ SubSeq(LastProcessed, n - 1, n) = <<"_", "$">>

\* C7, amended: the start marker and the characters of the rendering (its
\* trailing whitespace removed) are all joined by the separator, so a
\* separator follows the start marker when the rendering is not empty; then
\* "_$".
C7_AllJoined ==
    SentenceClosed =>
        LET n == Len(LastProcessed) IN
        /\ n >= 3
        /\ LastProcessed[1] = "^"
        /\ Separated(<<"^">> \o trim_end(rendering),
                     SubSeq(LastProcessed, 1, n - 2))
        /\ SubSeq(LastProcessed, n - 1, n) = <<"_", "$">>
        /\ LastProcessed = processed_sentence

\* C7's case: a sentence of two words has been closed, its rendering holding
\* the space between the words and the trailing space that trim removes
C7_Witness ==
    /\ SentenceClosed
    /\ Len(words) = 2
    /\ Len(trim_end(rendering)) < Len(rendering)
    /\ \E i \in 1..Len(trim_end(rendering)) : rendering[i] = " "

\* The string handed to the vectorizer
FormattedString == IF entry = "main" THEN formated_ipa_string ELSE text_out

\* Number of ids the first k characters of s contribute
RECURSIVE IdsBefore(_, _, _)
IdsBefore(s, table, k) ==
    IF k = 0 THEN 0
    ELSE IdsBefore(s, table, k - 1)
         + (IF s[k] \in DOMAIN table THEN Len(table[s[k]]) ELSE 0)

\* C8: the ids are the id lists of the characters the vocabulary has, in
\* string order: the list of the k-th character stands right after the ids
\* of the characters before it, absent characters add nothing, and the
\* number of ids is the sum of the present characters' list lengths.
C8_VectorizerConcatenates ==
    pc = "Vectorized" =>
        LET s == FormattedString
            table == config_phoneme_id_map
        IN  /\ Len(phonemes_ids) = IdsBefore(s, table, Len(s))
            /\ \A k \in 1..Len(s) :
                   s[k] \in DOMAIN table =>
                       \A j \in 1..Len(table[s[k]]) :
                           phonemes_ids[IdsBefore(s, table, k - 1) + j]
                               = table[s[k]][j]

\* C8's case: a string with a character the vocabulary lacks, one it maps to
\* two ids and one it maps to none or one
C8_Witness ==
    /\ pc = "Vectorized"
    /\ \E k \in 1..Len(FormattedString) :
           FormattedString[k] \notin DOMAIN config_phoneme_id_map
    /\ \E k \in 1..Len(FormattedString) :
           /\ FormattedString[k] \in DOMAIN config_phoneme_id_map
           /\ Len(config_phoneme_id_map[FormattedString[k]]) = 2
    /\ \E k \in 1..Len(FormattedString) :
           /\ FormattedString[k] \in DOMAIN config_phoneme_id_map
           /\ Len(config_phoneme_id_map[FormattedString[k]]) < 2

\* A word made of punctuation characters only
OnlyPunctuation(w) ==
    w # <<>> /\ \A i \in 1..Len(w) : is_ascii_punctuation(w[i])

\* w's characters stand in s in order, with nothing but separators between
Verbatim(w, s) ==
    LET plain == SelectSeq(s, LAMBDA c : c # "_") IN
    \E k \in 0..(Len(plain) - Len(w)) :
        \A i \in 1..Len(w) : plain[k + i] = w[i]

\* C9: a word of punctuation characters only is not phonemized (no decode
\* runs for it) and stands verbatim in its sentence's formatted string.
C9_PunctuationVerbatim ==
    /\ (entry = "process_text" /\ InDecode) => ~OnlyPunctuation(words[wi])
    /\ SentenceClosed =>
           \A i \in 1..Len(words) :
               OnlyPunctuation(words[i]) => Verbatim(words[i], LastProcessed)
    /\ (entry = "main" /\ pc \in {"Formatted", "Vectorized"}) =>
           \A w \in {split_whitespace(text)[i] :
                         i \in 1..Len(split_whitespace(text))} :
               OnlyPunctuation(w) => Verbatim(w, formated_ipa_string)

\* Empty or whitespace-only
IsBlank(t) == \A i \in 1..Len(t) : is_whitespace(t[i])

Formatted ==
    \/ entry = "process_text" /\ pc \in {"Done", "Vectorized"}
    \/ entry = "main" /\ pc \in {"Formatted", "Vectorized"}

\* C10 as stated: for a blank text there are no sentences, no error, no
\* decoder run, and the formatted string has length zero.
C10_BlankGivesEmptyString ==
    IsBlank(text) =>
        /\ sentences = <<>>
        /\ pc # "Failed" /\ error = ""
        /\ ~decoder_ran
        /\ Formatted => Len(FormattedString) = 0

\* C10, amended: as above, but only process_text's string has length zero;
\* main's default formatter yields the start marker alone.
C10_BlankGivesNoSentence ==
    IsBlank(text) =>
        /\ sentences = <<>>
        /\ pc # "Failed" /\ error = ""
        /\ ~decoder_ran
        /\ (entry = "process_text" /\ Formatted) =>
               (ps_result = "Ok" /\ ps_value = <<>> /\ pt_result = "Ok"
                /\ text_out = <<>>)
        /\ (entry = "main" /\ Formatted) => formated_ipa_string = <<"^">>

\* C10's case: a whitespace-only text has gone through the formatter
C10_Witness ==
    /\ IsBlank(text) /\ text # <<>>
    /\ Formatted

\* C11: every sentence the segmenter emits ends at the first terminal
\* punctuation character after its start: no emitted sentence holds '.', '!'
\* or '?' anywhere but as its last character.
TerminalOnlyLast(s) ==
    \A i \in 1..(Len(s) - 1) : s[i] \notin sentence_endings

C11_EndsAtFirstTerminal ==
    pc # "Start" =>
        \A k \in 1..Len(sentences) : TerminalOnlyLast(sentences[k])

\* The table the mapper at hand consults, and the renderings of the tokens
\* of mapper_word under a per-token rule f.
MapperTable ==
    IF entry = "arpabet_to_ipa" THEN arpabet_mapping ELSE main_arpabet_to_ipa

Mapped == pc = "Mapped" /\ entry \in {"arpabet_to_ipa", "main_ipa_words"}

RendersBy(f(_, _)) ==
    LET expected == [k \in 1..Len(mapper_word) |->
                        f(mapper_word[k], MapperTable)]
    IN  IF entry = "arpabet_to_ipa" THEN ipa_phonemes = expected
        ELSE ipa_phonemes = <<join(expected, <<>>)>>

\* C12 as stated: the mapper strips a trailing stress digit, looks the base
\* token up, and puts the stress mark of digit 1 or 2 before the base's
\* rendering, whether or not the digit-suffixed token is itself a key.
C12_StripsStressDigit == Mapped => RendersBy(lookup_stripping)

\* C12, amended: the mapper looks up the whole token, stress digit included.
\* A token that is a key gets its own entry's rendering, so AH1 gets the
\* stress mark from main's AH1 entry; a token that is no key is kept as it
\* is, also when its base is a key (K1 stays K1).
KeptOrEntry(token, mapping) ==
    IF token \in DOMAIN mapping THEN mapping[token] ELSE token

C12_LooksUpWholeToken ==
    /\ Mapped => RendersBy(KeptOrEntry)
    /\ (Mapped /\ mapper_word = << <<"K", "1">> >>) =>
           ipa_phonemes = << <<"K", "1">> >>
    /\ (Mapped /\ entry = "main_ipa_words"
               /\ mapper_word = << <<"A", "H", "1">>, <<"A", "H", "2">> >>) =>
           ipa_phonemes = << <<"'", "@", "%", "@">> >>
    /\ (Mapped /\ entry = "arpabet_to_ipa"
               /\ mapper_word = << <<"A", "H", "1">>, <<"K">> >>) =>
           ipa_phonemes = << <<"A", "H", "1">>, <<"k">> >>

\* C12's case: the library's mapper has rendered a word whose first token,
\* K2, is no key while its base K is one
C12_Witness ==
    /\ Mapped /\ entry = "arpabet_to_ipa"
    /\ mapper_word = << <<"K", "2">>, <<"K">> >>
    /\ ipa_phonemes = << <<"K", "2">>, <<"k">> >>

\* C13 as stated: the synthesis invoker returns an error whenever the
\* phoneme-id sequence is empty (a panic counted as a failure too), and for
\* any input it runs the vocoder network at most once.
InvokerReturned == entry = "process_ipa_string" /\ pc \in {"Returned", "Failed"}

C13_EmptyIdsIsError ==
    /\ (InvokerReturned /\ phonemes_ids = <<>>) => inference_result # "Ok"
    /\ model_runs <= 1

\* C13, amended: the invoker has no check of its own.  Every id sequence,
\* the empty one too, gets its [1, len] array and reaches the tensors; the
\* call fails only where a tensor, the run of the network or the extraction
\* of the output fails, and returns Ok after exactly one run; the network is
\* never run a second time.
C13_NoCheckOfItsOwn ==
    /\ [](model_runs <= 1)
    /\ [](entry = "process_ipa_string" =>
            /\ (pc = "Returned" => model_runs = 1 /\ inference_result = "Ok")
            /\ (pc = "Failed" => inference_result \in {"Err", "Panic"})
            /\ (pc # "Ipa" => phonemes_len = Len(phonemes_ids)))
    /\ [][(entry = "process_ipa_string" /\ pc = "Ipa") =>
              (pc' = "Prepared")]_vars
    /\ [][(pc \in {"Inferred", "Returned", "Failed"}) =>
              (model_runs' = model_runs)]_vars

\* C13's case: no character of a non-empty string was in the vocabulary, the
\* network was run once on the empty id sequence, and the invoker returned Ok
C13_Witness ==
    /\ entry = "process_ipa_string" /\ pc = "Returned"
    /\ ipa_string_arg # <<>> /\ phonemes_ids = <<>> /\ phonemes_len = 0
    /\ model_runs = 1 /\ inference_result = "Ok"

\* The header's fields by their offsets in the file, the samples decoded
\* from the bytes after the header.
InWav == entry \in {"write_wav_file", "main_wav"}
Field(first, last) == SubSeq(file, first, last)
SampleCount == Len(waveform)

decode_i16(lo, hi) ==
    IF lo + 256 * hi >= 32768 THEN lo + 256 * hi - 65536 ELSE lo + 256 * hi

DataInOrder ==
    /\ Len(samples) = SampleCount
    /\ \A i \in 1..SampleCount :
           decode_i16(file[43 + 2 * i], file[44 + 2 * i]) = samples[i]

FixedFields ==
    /\ Field(1, 4) = <<82, 73, 70, 70>>
    /\ Field(9, 12) = <<87, 65, 86, 69>>
    /\ Field(13, 16) = <<102, 109, 116, 32>>
    /\ Field(17, 20) = <<16, 0, 0, 0>>
    /\ Field(21, 22) = <<1, 0>>
    /\ Field(23, 24) = <<1, 0>>
    /\ Field(33, 34) = <<2, 0>>
    /\ Field(35, 36) = <<16, 0>>
    /\ Field(37, 40) = <<100, 97, 116, 97>>

\* The numbers of the claim as their 8 little-endian bytes: N, the number
\* of samples, twice a number, its low 32 bits, and the length of the file.
NSamples == u64_add(to_le_bytes(SampleCount, 8), silence)
Twice(x) == u64_add(x, x)
Low32(x) == SubSeq(x, 1, 4)
Below2To32(x) == SubSeq(x, 5, 8) = <<0, 0, 0, 0>>
FileLength == u64_add(to_le_bytes(Len(file), 8), file_zeros)

\* a >= b, for two numbers of as many bytes
AtLeast(a, b) ==
    \/ a = b
    \/ \E i \in 1..Len(a) :
           a[i] > b[i] /\ \A j \in (i + 1)..Len(a) : a[j] = b[j]

\* 44 + 2N bytes, and the two size fields in 32-bit unsigned arithmetic:
\* 36 + 2N and 2N modulo 2^32
SizeFields ==
    /\ FileLength = u64_add(to_le_bytes(44, 8), Twice(NSamples))
    /\ Field(5, 8) = Low32(u64_add(to_le_bytes(36, 8), Twice(NSamples)))
    /\ Field(41, 44) = Low32(Twice(NSamples))

\* the two size fields, as numbers, are 36 + 2N and 2N
SizeFieldsExact ==
    /\ Field(5, 8) \o <<0, 0, 0, 0>> =
           u64_add(to_le_bytes(36, 8), Twice(NSamples))
    /\ Field(41, 44) \o <<0, 0, 0, 0>> = Twice(NSamples)

\* the N samples in order: those of the waveform, then the zeros of the
\* silence
DataThenSilence ==
    /\ DataInOrder
    /\ Len(file) = 44 + 2 * SampleCount
    /\ file_zeros = Twice(silence)

\* the byte-rate field, as a number, is twice the sample rate handed in
ByteRateIsTwiceRate ==
    Field(29, 32) \o <<0, 0, 0, 0, 0>> = add_bytes(sample_rate, sample_rate, 0)

RateBelow2To31 ==
    sample_rate[4] < 128 /\ SubSeq(sample_rate, 5, 8) = <<0, 0, 0, 0>>

\* N modulo 2^32 is 2^31 - 18 or more: 36 + 2 x that does not fit a u32
LengthOverflows == AtLeast(Low32(NSamples), <<238, 255, 255, 127>>)

\* the sample rate modulo 2^32 is 2^31 or more: twice that does not fit
RateOverflows == sample_rate[4] >= 128

\* C14 as stated: for every waveform of N samples and every sample rate
\* the writer writes exactly 44 + 2N bytes: the header with RIFF size
\* 36 + 2N and data size 2N in 32-bit unsigned arithmetic, format 1, one
\* channel, byte rate twice the sample rate, block align 2 and 16 bits per
\* sample, then the N samples in order.
C14_WavLayout ==
    (InWav /\ pc \in {"Written", "Panicked"}) =>
        /\ SizeFields /\ FixedFields /\ ByteRateIsTwiceRate /\ DataThenSilence

\* C14, amended: with n = N modulo 2^32 and r = the sample rate modulo 2^32
\* (the `as u32` casts), every file that is written has 44 + 2N bytes, the
\* fixed fields, the size fields 36 + 2n and 2n, the rate r and the byte
\* rate 2r, all modulo 2^32, and the N samples in order; for N below
\* 2^31 - 18 the size fields are 36 + 2N and 2N, for a rate below 2^31 the
\* byte rate is twice the rate handed in.  When n is 2^31 - 18 or more, or r
\* is 2^31 or more, a build with overflow checks panics with the file
\* created and empty and a build without writes the wrapped values; a build
\* with overflow checks panics in no other case.  The last four conjuncts
\* are the fields at N = 2^31 - 19, 2^31 - 18, 2^31 and 2^32 + 1.
C14_WavLayoutInRange ==
    /\ (InWav /\ pc = "Written") =>
           /\ SizeFields /\ FixedFields /\ DataThenSilence
           /\ Field(25, 28) = SubSeq(sample_rate, 1, 4)
           /\ Field(29, 32) =
                  SubSeq(add_bytes(Field(25, 28), Field(25, 28), 0), 1, 4)
           /\ ((~LengthOverflows /\ Below2To32(NSamples)) => SizeFieldsExact)
           /\ (RateBelow2To31 => ByteRateIsTwiceRate)
           /\ ((LengthOverflows \/ RateOverflows) => ~overflow_checks)
    /\ (InWav /\ pc = "Panicked") =>
           /\ overflow_checks /\ (LengthOverflows \/ RateOverflows)
           /\ file = <<>> /\ file_zeros = <<0, 0, 0, 0, 0, 0, 0, 0>>
           /\ samples = <<>>
    /\ (InWav /\ pc = "HeaderWritten") =>
           /\ Len(file) = 44
           /\ ((LengthOverflows \/ RateOverflows) => ~overflow_checks)
    /\ (InWav /\ pc = "Written" /\ SampleCount = 0
           /\ silence = <<237, 255, 255, 127, 0, 0, 0, 0>>) =>
           /\ Field(5, 8) = <<254, 255, 255, 255>>
           /\ Field(41, 44) = <<218, 255, 255, 255>>
    /\ (InWav /\ pc = "Written" /\ SampleCount = 1
           /\ silence = <<237, 255, 255, 127, 0, 0, 0, 0>>) =>
           /\ ~overflow_checks
           /\ Field(5, 8) = <<0, 0, 0, 0>>
           /\ Field(41, 44) = <<220, 255, 255, 255>>
    /\ (InWav /\ pc = "Written" /\ SampleCount = 0
           /\ silence = <<0, 0, 0, 128, 0, 0, 0, 0>>) =>
           /\ ~overflow_checks
           /\ Field(5, 8) = <<36, 0, 0, 0>>
           /\ Field(41, 44) = <<0, 0, 0, 0>>
    /\ (InWav /\ pc = "Written" /\ SampleCount = 1
           /\ silence = <<0, 0, 0, 0, 1, 0, 0, 0>>) =>
           /\ Field(5, 8) = <<38, 0, 0, 0>>
           /\ Field(41, 44) = <<2, 0, 0, 0>>
           /\ Len(file) = 46
           /\ file_zeros = <<0, 0, 0, 0, 2, 0, 0, 0>>

\* C14's case: a waveform of 2^31 - 18 samples, one sample and a silence of
\* 2^31 - 19, was handed to a build with overflow checks at a rate of 22050:
\* 36 + 2N is 2^32, the writer has panicked and the file is empty
C14_Witness ==
    /\ InWav /\ pc = "Panicked" /\ overflow_checks
    /\ SampleCount = 1 /\ silence = <<237, 255, 255, 127, 0, 0, 0, 0>>
    /\ sample_rate = <<34, 86, 0, 0, 0, 0, 0, 0>>
    /\ file = <<>>

\* a waveform of 2^32 + 1 samples has been written by a build with overflow
\* checks at a rate of 22050: nothing overflows, the size fields are 38 and 2
C14_LongWaveformWritten ==
    /\ InWav /\ pc = "Written" /\ overflow_checks
    /\ SampleCount = 1 /\ silence = <<0, 0, 0, 0, 1, 0, 0, 0>>
    /\ sample_rate = <<34, 86, 0, 0, 0, 0, 0, 0>>
    /\ Field(5, 8) = <<38, 0, 0, 0>> /\ Field(41, 44) = <<2, 0, 0, 0>>

\* a waveform of two samples has been written at a rate of 22050
C14_ShortWaveformWritten ==
    /\ InWav /\ pc = "Written"
    /\ SampleCount = 2 /\ silence = <<0, 0, 0, 0, 0, 0, 0, 0>>
    /\ sample_rate = <<34, 86, 0, 0, 0, 0, 0, 0>>
    /\ Len(file) = 48
    /\ Field(5, 8) = <<40, 0, 0, 0>> /\ Field(29, 32) = <<68, 172, 0, 0>>

\* Twice the product of sample i and 32767 (the samples are halves), and
\* "v is x2 / 2 cut towards zero".
Scaled2(i) == waveform[i].halves * 32767

CutTowardsZero(x2, v) ==
    IF x2 >= 0 THEN 2 * v <= x2 /\ x2 < 2 * v + 2
    ELSE 2 * v >= x2 /\ x2 > 2 * v - 2

HalfTowardsZero(x2) == IF x2 >= 0 THEN x2 \div 2 ELSE -((-x2) \div 2)

\* v is w reduced modulo 2^16 into the range of i16
WrapsTo(w, v) == v \in -32768..32767 /\ (w - v) % 65536 = 0

Samples_Written == InWav /\ pc = "Written"

\* C15 as stated: a sample is multiplied by 32767 and truncated, and a
\* scaled value outside [-32768, 32767] wraps around modulo 2^16 on the cast.
C15_CastWraps ==
    Samples_Written =>
        \A i \in 1..Len(waveform) :
            ~waveform[i].nan =>
                WrapsTo(HalfTowardsZero(Scaled2(i)), samples[i])

\* C15, amended: a sample is multiplied by 32767 and truncated towards
\* zero, and the cast saturates: a scaled value above 32767 gives 32767, one
\* below -32768 gives -32768, NaN gives 0; the file holds these values.
C15_CastSaturates ==
    Samples_Written =>
        /\ DataInOrder
        /\ \A i \in 1..Len(waveform) :
               IF waveform[i].nan THEN samples[i] = 0
               ELSE IF Scaled2(i) >= 2 * 32768 THEN samples[i] = 32767
               ELSE IF Scaled2(i) <= 2 * (-32769) THEN samples[i] = -32768
               ELSE CutTowardsZero(Scaled2(i), samples[i])

\* C15's case: the samples 2.5 and -2.5 have been written as 32767 and -32768
C15_Witness ==
    /\ Samples_Written
    /\ waveform = <<F32(5), F32(-5)>>
    /\ samples = <<32767, -32768>>
    /\ Field(45, 48) = <<255, 127, 0, 128>>

\* C16: during a greedy_decode session decoder_ids is append-only.  It starts
\* with the BOS id, its length is 1 plus the number of completed steps, a
\* step appends one id and leaves the earlier ones as they are, the decoder
\* input of step k is BOS followed by the ids selected at steps 1..k-1, and
\* every step is handed the same encoder hidden states and attention mask.
CompletedSteps == Len(selected)

C16_DecoderIdsAppendOnly ==
    /\ [](InDecode =>
            /\ decoder_ids[1] = bos_id
            /\ Len(decoder_ids) = 1 + CompletedSteps
            /\ session_runs = CompletedSteps
            /\ decoder_ids = <<bos_id>> \o selected)
    /\ []((InDecode /\ CompletedSteps >= 1) =>
            /\ inputs.input_ids =
                   <<bos_id>> \o SubSeq(selected, 1, CompletedSteps - 1)
            /\ inputs.encoder_hidden_states = encoder_output
            /\ inputs.encoder_attention_mask = encoder_attention_mask)
    /\ [][(pc = "Stepping" /\ pc' \in {"Stepping", "Decoded"}) =>
              (/\ Len(decoder_ids') = Len(decoder_ids) + 1
               /\ SubSeq(decoder_ids', 1, Len(decoder_ids)) = decoder_ids
               /\ encoder_output' = encoder_output
               /\ encoder_attention_mask' = encoder_attention_mask
               /\ inputs'.encoder_hidden_states = encoder_output
               /\ inputs'.encoder_attention_mask = encoder_attention_mask)]_vars

\* C16's case: two steps of the decode of the word "a" are done and a third
\* may follow; the second run was handed BOS and the first selected id, and
\* the mask of the three ids that the tokenizer gave for the word
C16_Witness ==
    /\ pc = "Stepping" /\ CompletedSteps = 2
    /\ word_without_punctuation = <<"a">>
    /\ decoder_ids = <<bos_id, 3, 0>>
    /\ inputs.input_ids = <<bos_id, 3>>
    /\ inputs.encoder_hidden_states =
           <<"last_hidden_state", <<"[CLS]", "a", "[SEP]">>>>
    /\ inputs.encoder_attention_mask = <<1, 1, 1>>

====
